---- MODULE Spec2Model ----
(***************************************************************************)
(* PriorityDict (src/prioritydict.py): a dictionary that keeps its keys in *)
(* value sort order.  The container owns two indices:                      *)
(*   _dict : the Mapping Index, key -> value                               *)
(*   _list : the Order Index, a SortedList of (value, key) tuples          *)
(* Every method of the class is an operator from the indices (and the      *)
(* arguments) to an outcome: the new indices, the exception raised (or     *)
(* "ok"), the value returned and the strategy branch taken.  A method that *)
(* raises partway leaves the indices as they were at the raise.            *)
(***************************************************************************)
EXTENDS Integers, Sequences, FiniteSets, TLC

\* Bounds of the model.
MaxKey == 3
MaxVal == 1
MaxThat == 1
MaxOther == 2
MaxBigKey == 11

\* The crossover ratios of the strategy heuristics.
UpdateRatio == 10
MergeRatio == 3

Keys == 1..MaxKey
\* The values a container is given, and the values of a mapping merged in.
Values == (-1)..MaxVal
Counts == 0..MaxVal
BigKeys == 1..MaxBigKey

VARIABLES _dict, _list, op, branch, err, ret, failed, self0, list0, that, result

vars == <<_dict, _list, op, branch, err, ret, failed, self0, list0, that, result>>

\* No value (Python's None, or nothing returned).
None == <<>>

(***************************************************************************)
(* Outcomes.                                                               *)
(***************************************************************************)
Return(d, l, r, b) == [d |-> d, l |-> l, err |-> "ok", ret |-> r, branch |-> b]

Raise(d, l, e, b) == [d |-> d, l |-> l, err |-> e, ret |-> None, branch |-> b]

(***************************************************************************)
(* Python's dict.                                                          *)
(***************************************************************************)
dict_setitem(d, key, value) ==
  [x \in (DOMAIN d) \cup {key} |-> IF x = key THEN value ELSE d[x]]

dict_delitem(d, key) == [x \in (DOMAIN d) \ {key} |-> d[x]]

\* dict.update(items): the items, a sequence of (key, value), stored in turn.
RECURSIVE dict_update(_, _)
dict_update(d, items) ==
  IF items = <<>> THEN d
  ELSE dict_update(dict_setitem(d, items[1][1], items[1][2]), Tail(items))

\* The (value, key) tuples of a dict: (value, key) for key, value in iter_items(d).
value_key_pairs(d) == {<<d[k], k>> : k \in DOMAIN d}

(***************************************************************************)
(* sortedcontainers.SortedList holding (value, key) tuples.                *)
(***************************************************************************)
\* Python's tuple comparison a < b on (value, key) tuples.
tuple_lt(a, b) == a[1] < b[1] \/ (a[1] = b[1] /\ a[2] < b[2])

Contains(l, x) == \E i \in 1..Len(l) : l[i] = x

\* The insertion point after every element that is not greater than x.
SortedList_bisect_right(l, x) == Cardinality({i \in 1..Len(l) : ~tuple_lt(x, l[i])})

SortedList_add(l, x) ==
  LET p == SortedList_bisect_right(l, x)
  IN  SubSeq(l, 1, p) \o <<x>> \o SubSeq(l, p + 1, Len(l))

\* remove(x) of an x the list holds (the caller raises ValueError otherwise).
SortedList_remove(l, x) ==
  LET i == CHOOSE j \in 1..Len(l) : l[j] = x /\ \A m \in 1..(j - 1) : l[m] # x
  IN  SubSeq(l, 1, i - 1) \o SubSeq(l, i + 1, Len(l))

\* update(iterable): every element of the set S added.
RECURSIVE SortedList_update(_, _)
SortedList_update(l, S) ==
  IF S = {} THEN l
  ELSE LET x == CHOOSE y \in S : \A z \in S : ~tuple_lt(z, y)
       IN  SortedList_update(SortedList_add(l, x), S \ {x})

\* Python's index normalisation: a negative position counts from the end.
norm_index(n, position) == IF position < 0 THEN position + n ELSE position

\* del l[i] for a 0-based i in range.
list_delitem(l, i) == SubSeq(l, 1, i) \o SubSeq(l, i + 2, Len(l))

(***************************************************************************)
(* PriorityDict: the single-entry methods.                                 *)
(***************************************************************************)
\* clear (lines 149-152).
clear(d, l) == Return(<<>>, <<>>, None, "-")

\* __getitem__ (lines 178-183).
__getitem__(d, l, key) ==
  IF key \notin DOMAIN d THEN Raise(d, l, "KeyError", "-")
  ELSE Return(d, l, <<d[key]>>, "-")

\* __delitem__ that takes the deletion of an absent key for done.
__delitem__ignores_absent(d, l, key) ==
  IF key \notin DOMAIN d THEN Return(d, l, None, "-")
  ELSE IF ~Contains(l, <<d[key], key>>) THEN Raise(d, l, "ValueError", "-")
  ELSE Return(dict_delitem(d, key), SortedList_remove(l, <<d[key], key>>), None, "-")

\* __delitem__ (lines 169-176).
__delitem__(d, l, key) ==
  IF key \notin DOMAIN d THEN Raise(d, l, "KeyError", "-")
  ELSE IF ~Contains(l, <<d[key], key>>) THEN Raise(d, l, "ValueError", "-")
  ELSE Return(dict_delitem(d, key), SortedList_remove(l, <<d[key], key>>), None, "-")

\* __setitem__ that leaves the old tuple of the key in the list.
__setitem__keeps_old(d, l, key, value, incomparable) ==
  IF incomparable THEN Raise(d, l, "TypeError", "-")
  ELSE Return(dict_setitem(d, key, value), SortedList_add(l, <<value, key>>), None, "-")

\* __setitem__ (lines 203-209).  incomparable: the value is of a type that
\* cannot be compared with the stored values, so that SortedList.add raises
\* TypeError as soon as it compares it with an element (value then stands
\* for nothing).
__setitem__(d, l, key, value, incomparable) ==
  IF key \in DOMAIN d /\ ~Contains(l, <<d[key], key>>)
  THEN Raise(d, l, "ValueError", "-")
  ELSE LET l1 == IF key \in DOMAIN d THEN SortedList_remove(l, <<d[key], key>>) ELSE l
       IN  IF incomparable
           THEN Raise(d, l1, "TypeError", "-")
           ELSE Return(dict_setitem(d, key, value), SortedList_add(l1, <<value, key>>),
                       None, "-")

\* pop (lines 239-253).  has_default: a default was given.
pop(d, l, key, has_default, default) ==
  IF key \in DOMAIN d
  THEN IF ~Contains(l, <<d[key], key>>) THEN Raise(d, l, "ValueError", "-")
       ELSE Return(dict_delitem(d, key), SortedList_remove(l, <<d[key], key>>),
                   <<d[key]>>, "-")
  ELSE IF ~has_default THEN Raise(d, l, "KeyError", "-")
       ELSE Return(d, l, <<default>>, "-")

\* popitem that leaves the key in the dict.
popitem_keeps_key(d, l, position) ==
  LET i == norm_index(Len(l), position)
  IN  IF i < 0 \/ i >= Len(l) THEN Raise(d, l, "IndexError", "-")
      ELSE Return(d, list_delitem(l, i), <<l[i + 1][2], l[i + 1][1]>>, "-")

\* popitem (lines 255-263).
popitem(d, l, position) ==
  LET i == norm_index(Len(l), position)
  IN  IF i < 0 \/ i >= Len(l) THEN Raise(d, l, "IndexError", "-")
      ELSE LET value == l[i + 1][1]
               key == l[i + 1][2]
               l1 == list_delitem(l, i)
           IN  IF key \notin DOMAIN d THEN Raise(d, l1, "KeyError", "-")
               ELSE Return(dict_delitem(d, key), l1, <<key, value>>, "-")

\* setdefault (lines 265-276).
setdefault(d, l, key, default) ==
  IF key \in DOMAIN d THEN Return(d, l, <<d[key]>>, "-")
  ELSE Return(dict_setitem(d, key, default), SortedList_add(l, <<default, key>>),
              <<default>>, "-")

\* index (lines 352-358).
index(d, l, key) ==
  IF key \notin DOMAIN d THEN Raise(d, l, "KeyError", "-")
  ELSE IF ~Contains(l, <<d[key], key>>) THEN Raise(d, l, "ValueError", "-")
  ELSE Return(d, l,
              <<(CHOOSE j \in 1..Len(l) : l[j] = <<d[key], key>>
                    /\ \A m \in 1..(j - 1) : l[m] # <<d[key], key>>) - 1>>, "-")

(***************************************************************************)
(* Bisection and threshold pruning.                                        *)
(***************************************************************************)
\* _Biggest.__lt__ (lines 54-55): the sentinel is less than nothing.
_Biggest__lt__(key) == FALSE

\* (value, _Biggest) < e for an element e of the list, as Python compares
\* tuples: _Biggest equals no key (lines 58-59), so a tie on the value is
\* decided by _Biggest < key.
probe_lt(value, e) == value < e[1] \/ (value = e[1] /\ _Biggest__lt__(e[2]))

\* bisect_right (lines 373-379): _list.bisect_right((value, _Biggest)).
bisect_right(d, l, value) == Cardinality({i \in 1..Len(l) : ~probe_lt(value, l[i])})

\* Python's comparison a < b of two tuples of numbers of any lengths: the
\* first position where they differ decides, and a proper prefix is less.
py_tuple_lt(a, b) ==
  LET n == IF Len(a) < Len(b) THEN Len(a) ELSE Len(b)
      differ == {i \in 1..n : a[i] # b[i]}
  IN  IF differ = {} THEN Len(a) < Len(b)
      ELSE LET i == CHOOSE j \in differ : \A m \in differ : j <= m
           IN  a[i] < b[i]

\* e < (value, _Biggest) for an element e of the list: on a tie on the value
\* the key of e is compared with _Biggest, whose reflected __gt__
\* (lines 50-51) answers True.
lt_probe(e, value) == e[1] < value \/ e[1] = value

\* bisect_left with the probe of bisect_right.
bisect_left_biggest_probe(d, l, value) ==
  Cardinality({i \in 1..Len(l) : lt_probe(l[i], value)})

\* bisect_left (lines 360-367): _list.bisect_left((value,)), the number of
\* elements less than the 1-tuple.
bisect_left(d, l, value) ==
  Cardinality({i \in 1..Len(l) : py_tuple_lt(l[i], <<value>>)})

\* bisect (lines 369-371): _list.bisect((value,)), and SortedList.bisect is
\* bisect_right: the number of elements the 1-tuple is not less than.
bisect(d, l, value) ==
  Cardinality({i \in 1..Len(l) : ~py_tuple_lt(<<value>>, l[i])})

\* The loop of lines 161-162 / 103-104: del _dict[key] for the keys of the
\* selected tuples, in turn.
RECURSIVE del_keys(_, _)
del_keys(d, tuples) ==
  IF tuples = <<>> THEN [d |-> d, err |-> "ok"]
  ELSE IF tuples[1][2] \notin DOMAIN d THEN [d |-> d, err |-> "KeyError"]
  ELSE del_keys(dict_delitem(d, tuples[1][2]), Tail(tuples))

\* clean that removes the values below the threshold only (the insertion
\* point of bisect_left).
clean_strictly_less(d, l, value) ==
  LET pos == bisect_left(d, l, value)
      r == del_keys(d, SubSeq(l, 1, pos))
  IN  IF r.err # "ok" THEN Raise(r.d, l, r.err, "-")
      ELSE Return(r.d, SubSeq(l, pos + 1, Len(l)), None, "-")

\* clean (lines 154-163).
clean(d, l, value) ==
  LET pos == bisect_right(d, l, value)
      r == del_keys(d, SubSeq(l, 1, pos))
  IN  IF r.err # "ok" THEN Raise(r.d, l, r.err, "-")
      ELSE Return(r.d, SubSeq(l, pos + 1, Len(l)), None, "-")

(***************************************************************************)
(* _IlocWrapper: positional access.  A slice is [start, stop], each bound  *)
(* <<>> (None) or <<i>>; the step is 1.                                    *)
(***************************************************************************)
\* slice.indices(n) for one bound: None is the default, a negative bound
\* counts from the end, and the result is clamped into 0..n.
slice_bound(n, bound, default) ==
  IF bound = <<>> THEN default
  ELSE LET i == IF bound[1] < 0 THEN bound[1] + n ELSE bound[1]
       IN  IF i < 0 THEN 0 ELSE IF i > n THEN n ELSE i

slice_start(n, s) == slice_bound(n, s.start, 0)

slice_stop(n, s) == slice_bound(n, s.stop, n)

\* _list[slice]: the selected tuples.
list_getslice(l, s) == SubSeq(l, slice_start(Len(l), s) + 1, slice_stop(Len(l), s))

\* del _list[slice] that takes the element at the stop with it.
list_delslice_inclusive(l, s) ==
  IF slice_start(Len(l), s) >= slice_stop(Len(l), s) THEN l
  ELSE SubSeq(l, 1, slice_start(Len(l), s)) \o SubSeq(l, slice_stop(Len(l), s) + 2, Len(l))

\* del _list[slice].
list_delslice(l, s) ==
  IF slice_start(Len(l), s) >= slice_stop(Len(l), s) THEN l
  ELSE SubSeq(l, 1, slice_start(Len(l), s)) \o SubSeq(l, slice_stop(Len(l), s) + 1, Len(l))

\* _IlocWrapper.__getitem__ with an integer (lines 93-94).
iloc__getitem__(d, l, position) ==
  LET i == norm_index(Len(l), position)
  IN  IF i < 0 \/ i >= Len(l) THEN Raise(d, l, "IndexError", "-")
      ELSE Return(d, l, <<l[i + 1][2]>>, "-")

\* _IlocWrapper.__getitem__ with a slice (lines 91-92).
iloc__getslice__(d, l, s) ==
  Return(d, l, [i \in 1..Len(list_getslice(l, s)) |-> list_getslice(l, s)[i][2]], "-")

\* _IlocWrapper.__delitem__ with an integer that clamps the position into
\* the list, as a slice bound is clamped.
iloc__delitem__clamped(d, l, position) ==
  LET n == norm_index(Len(l), position)
      i == IF n < 0 THEN 0 ELSE IF n >= Len(l) THEN Len(l) - 1 ELSE n
  IN  IF Len(l) = 0 THEN Raise(d, l, "IndexError", "-")
      ELSE LET key == l[i + 1][2]
               l1 == list_delitem(l, i)
           IN  IF key \notin DOMAIN d THEN Raise(d, l1, "KeyError", "-")
               ELSE Return(dict_delitem(d, key), l1, None, "-")

\* _IlocWrapper.__delitem__ with an integer (lines 106-109).
iloc__delitem__(d, l, position) ==
  LET i == norm_index(Len(l), position)
  IN  IF i < 0 \/ i >= Len(l) THEN Raise(d, l, "IndexError", "-")
      ELSE LET key == l[i + 1][2]
               l1 == list_delitem(l, i)
           IN  IF key \notin DOMAIN d THEN Raise(d, l1, "KeyError", "-")
               ELSE Return(dict_delitem(d, key), l1, None, "-")

\* _IlocWrapper.__delitem__ with a slice that checks the bounds as the
\* bound of a single position is checked.
iloc__delslice__strict(d, l, s) ==
  LET r == del_keys(d, list_getslice(l, s))
      outside(b) == b # <<>> /\ (b[1] < 0 - Len(l) \/ b[1] > Len(l))
  IN  IF outside(s.start) \/ outside(s.stop) THEN Raise(d, l, "IndexError", "-")
      ELSE IF r.err # "ok" THEN Raise(r.d, l, r.err, "-")
      ELSE Return(r.d, list_delslice(l, s), None, "-")

\* _IlocWrapper.__delitem__ with a slice (lines 102-105).
iloc__delslice__(d, l, s) ==
  LET r == del_keys(d, list_getslice(l, s))
  IN  IF r.err # "ok" THEN Raise(r.d, l, r.err, "-")
      ELSE Return(r.d, list_delslice(l, s), None, "-")

(***************************************************************************)
(* update: overwrite semantics.  items is the dict built from the          *)
(* arguments, as the sequence of its (key, value) items in iteration order.*)
(***************************************************************************)
\* The loop of lines 346-350.
RECURSIVE update_incremental(_, _, _)
update_incremental(d, l, items) ==
  IF items = <<>> THEN [d |-> d, l |-> l, err |-> "ok"]
  ELSE LET key == items[1][1]
           value == items[1][2]
       IN  IF key \notin DOMAIN d THEN [d |-> d, l |-> l, err |-> "KeyError"]
           ELSE IF ~Contains(l, <<d[key], key>>) THEN [d |-> d, l |-> l, err |-> "ValueError"]
           ELSE update_incremental(dict_setitem(d, key, value),
                  SortedList_add(SortedList_remove(l, <<d[key], key>>), <<value, key>>),
                  Tail(items))

\* update whose rebuild branch does not clear the list first.
update_no_clear(d, l, items) ==
  IF (UpdateRatio * Len(items)) > Cardinality(DOMAIN d)
  THEN LET d1 == dict_update(d, items)
       IN  Return(d1, SortedList_update(l, value_key_pairs(d1)), None, "rebuild")
  ELSE LET r == update_incremental(d, l, items)
       IN  [d |-> r.d, l |-> r.l, err |-> r.err, ret |-> None, branch |-> "incremental"]

\* update (lines 329-350).
update(d, l, items) ==
  IF (UpdateRatio * Len(items)) > Cardinality(DOMAIN d)
  THEN LET d1 == dict_update(d, items)
       IN  Return(d1, SortedList_update(<<>>, value_key_pairs(d1)), None, "rebuild")
  ELSE LET r == update_incremental(d, l, items)
       IN  [d |-> r.d, l |-> r.l, err |-> r.err, ret |-> None, branch |-> "incremental"]

(***************************************************************************)
(* The merges.  that is a mapping, given as the sequence items of its      *)
(* (key, value) items in iteration order.  bad is the set of keys of that  *)
(* whose value is of a type that can be neither added to nor compared with *)
(* a stored value: the arithmetic or comparison on it raises TypeError     *)
(* (the value in items then stands for nothing).                           *)
(***************************************************************************)
\* Python's max(a, b) and min(a, b) of two numbers.
max(a, b) == IF b > a THEN b ELSE a

min(a, b) == IF b < a THEN b ELSE a

\* The loop of lines 389-393 (the rebuild branch of __iadd__).
RECURSIVE iadd_rebuild(_, _, _)
iadd_rebuild(d, items, bad) ==
  IF items = <<>> THEN [d |-> d, err |-> "ok"]
  ELSE LET key == items[1][1]
           value == items[1][2]
       IN  IF key \in DOMAIN d
           THEN IF key \in bad THEN [d |-> d, err |-> "TypeError"]
                ELSE iadd_rebuild(dict_setitem(d, key, d[key] + value), Tail(items), bad)
           ELSE iadd_rebuild(dict_setitem(d, key, value), Tail(items), bad)

\* The incremental loop of __iadd__ without value = old_value + value: the
\* value of that is stored as it is.
RECURSIVE iadd_incremental_no_sum(_, _, _, _)
iadd_incremental_no_sum(d, l, items, bad) ==
  IF items = <<>> THEN [d |-> d, l |-> l, err |-> "ok"]
  ELSE LET key == items[1][1]
           value == items[1][2]
           l1 == IF key \in DOMAIN d /\ Contains(l, <<d[key], key>>)
                 THEN SortedList_remove(l, <<d[key], key>>) ELSE l
       IN  iadd_incremental_no_sum(dict_setitem(d, key, value),
             SortedList_add(l1, <<value, key>>), Tail(items), bad)

\* The loop of lines 396-402 (the incremental branch of __iadd__).
RECURSIVE iadd_incremental(_, _, _, _)
iadd_incremental(d, l, items, bad) ==
  IF items = <<>> THEN [d |-> d, l |-> l, err |-> "ok"]
  ELSE LET key == items[1][1]
           value == items[1][2]
       IN  IF key \in DOMAIN d
           THEN IF ~Contains(l, <<d[key], key>>) THEN [d |-> d, l |-> l, err |-> "ValueError"]
                ELSE LET old_value == d[key]
                         l1 == SortedList_remove(l, <<old_value, key>>)
                     IN  IF key \in bad THEN [d |-> d, l |-> l1, err |-> "TypeError"]
                         ELSE iadd_incremental(dict_setitem(d, key, old_value + value),
                                SortedList_add(l1, <<old_value + value, key>>), Tail(items), bad)
           ELSE iadd_incremental(dict_setitem(d, key, value), SortedList_add(l, <<value, key>>),
                  Tail(items), bad)

\* __iadd__ (lines 381-403): add values from that.
__iadd__(d, l, items, bad) ==
  IF Cardinality(DOMAIN d) = 0
  THEN LET d1 == dict_update(d, items)
       IN  Return(d1, SortedList_update(l, value_key_pairs(d1)), None, "empty")
  ELSE IF Len(items) * MergeRatio > Cardinality(DOMAIN d)
  THEN LET r == iadd_rebuild(d, items, bad)
       IN  IF r.err # "ok" THEN Raise(r.d, <<>>, r.err, "rebuild")
           ELSE Return(r.d, SortedList_update(<<>>, value_key_pairs(r.d)), None, "rebuild")
  ELSE LET r == iadd_incremental(d, l, items, bad)
       IN  [d |-> r.d, l |-> r.l, err |-> r.err, ret |-> None, branch |-> "incremental"]

\* The rebuild loop of __isub__ with the else branch of __iadd__: a key only
\* that holds is introduced.
RECURSIVE isub_rebuild_with_else(_, _, _)
isub_rebuild_with_else(d, items, bad) ==
  IF items = <<>> THEN [d |-> d, err |-> "ok"]
  ELSE LET key == items[1][1]
           value == items[1][2]
       IN  IF key \in DOMAIN d
           THEN isub_rebuild_with_else(dict_setitem(d, key, d[key] - value), Tail(items), bad)
           ELSE isub_rebuild_with_else(dict_setitem(d, key, value), Tail(items), bad)

\* The loop of lines 413-415 (the rebuild branch of __isub__).
RECURSIVE isub_rebuild(_, _, _)
isub_rebuild(d, items, bad) ==
  IF items = <<>> THEN [d |-> d, err |-> "ok"]
  ELSE LET key == items[1][1]
           value == items[1][2]
       IN  IF key \in DOMAIN d
           THEN IF key \in bad THEN [d |-> d, err |-> "TypeError"]
                ELSE isub_rebuild(dict_setitem(d, key, d[key] - value), Tail(items), bad)
           ELSE isub_rebuild(d, Tail(items), bad)

\* The loop of lines 418-424 (the incremental branch of __isub__).
RECURSIVE isub_incremental(_, _, _, _)
isub_incremental(d, l, items, bad) ==
  IF items = <<>> THEN [d |-> d, l |-> l, err |-> "ok"]
  ELSE LET key == items[1][1]
           value == items[1][2]
       IN  IF key \in DOMAIN d
           THEN IF ~Contains(l, <<d[key], key>>) THEN [d |-> d, l |-> l, err |-> "ValueError"]
                ELSE LET old_value == d[key]
                         l1 == SortedList_remove(l, <<old_value, key>>)
                     IN  IF key \in bad THEN [d |-> d, l |-> l1, err |-> "TypeError"]
                         ELSE isub_incremental(dict_setitem(d, key, old_value - value),
                                SortedList_add(l1, <<old_value - value, key>>), Tail(items), bad)
           ELSE isub_incremental(d, l,
                  Tail(items), bad)

\* __isub__ (lines 405-425): subtract values from that.
__isub__(d, l, items, bad) ==
  IF Cardinality(DOMAIN d) = 0
  THEN LET d1 == <<>>
       IN  Return(d1, <<>>, None, "empty")
  ELSE IF Len(items) * MergeRatio > Cardinality(DOMAIN d)
  THEN LET r == isub_rebuild(d, items, bad)
       IN  IF r.err # "ok" THEN Raise(r.d, <<>>, r.err, "rebuild")
           ELSE Return(r.d, SortedList_update(<<>>, value_key_pairs(r.d)), None, "rebuild")
  ELSE LET r == isub_incremental(d, l, items, bad)
       IN  [d |-> r.d, l |-> r.l, err |-> r.err, ret |-> None, branch |-> "incremental"]

\* The loop of lines 435-439 (the rebuild branch of __ior__).
RECURSIVE ior_rebuild(_, _, _)
ior_rebuild(d, items, bad) ==
  IF items = <<>> THEN [d |-> d, err |-> "ok"]
  ELSE LET key == items[1][1]
           value == items[1][2]
       IN  IF key \in DOMAIN d
           THEN IF key \in bad THEN [d |-> d, err |-> "TypeError"]
                ELSE ior_rebuild(dict_setitem(d, key, max(d[key], value)), Tail(items), bad)
           ELSE ior_rebuild(dict_setitem(d, key, value), Tail(items), bad)

\* The incremental loop of __ior__ with min for max.
RECURSIVE ior_incremental_min(_, _, _, _)
ior_incremental_min(d, l, items, bad) ==
  IF items = <<>> THEN [d |-> d, l |-> l, err |-> "ok"]
  ELSE LET key == items[1][1]
           value == items[1][2]
       IN  IF key \in DOMAIN d /\ Contains(l, <<d[key], key>>)
           THEN ior_incremental_min(dict_setitem(d, key, min(d[key], value)),
                  SortedList_add(SortedList_remove(l, <<d[key], key>>),
                                 <<min(d[key], value), key>>), Tail(items), bad)
           ELSE ior_incremental_min(dict_setitem(d, key, value),
                  SortedList_add(l, <<value, key>>), Tail(items), bad)

\* The loop of lines 442-448 (the incremental branch of __ior__).
RECURSIVE ior_incremental(_, _, _, _)
ior_incremental(d, l, items, bad) ==
  IF items = <<>> THEN [d |-> d, l |-> l, err |-> "ok"]
  ELSE LET key == items[1][1]
           value == items[1][2]
       IN  IF key \in DOMAIN d
           THEN IF ~Contains(l, <<d[key], key>>) THEN [d |-> d, l |-> l, err |-> "ValueError"]
                ELSE LET old_value == d[key]
                         l1 == SortedList_remove(l, <<old_value, key>>)
                     IN  IF key \in bad THEN [d |-> d, l |-> l1, err |-> "TypeError"]
                         ELSE ior_incremental(dict_setitem(d, key, max(old_value, value)),
                                SortedList_add(l1, <<max(old_value, value), key>>), Tail(items), bad)
           ELSE ior_incremental(dict_setitem(d, key, value), SortedList_add(l, <<value, key>>),
                  Tail(items), bad)

\* __ior__ (lines 427-449): max(v1, v2).
__ior__(d, l, items, bad) ==
  IF Cardinality(DOMAIN d) = 0
  THEN LET d1 == dict_update(d, items)
       IN  Return(d1, SortedList_update(l, value_key_pairs(d1)), None, "empty")
  ELSE IF Len(items) * MergeRatio > Cardinality(DOMAIN d)
  THEN LET r == ior_rebuild(d, items, bad)
       IN  IF r.err # "ok" THEN Raise(r.d, <<>>, r.err, "rebuild")
           ELSE Return(r.d, SortedList_update(<<>>, value_key_pairs(r.d)), None, "rebuild")
  ELSE LET r == ior_incremental(d, l, items, bad)
       IN  [d |-> r.d, l |-> r.l, err |-> r.err, ret |-> None, branch |-> "incremental"]

\* The loop of lines 459-461 (the rebuild branch of __iand__).
RECURSIVE iand_rebuild(_, _, _)
iand_rebuild(d, items, bad) ==
  IF items = <<>> THEN [d |-> d, err |-> "ok"]
  ELSE LET key == items[1][1]
           value == items[1][2]
       IN  IF key \in DOMAIN d
           THEN IF key \in bad THEN [d |-> d, err |-> "TypeError"]
                ELSE iand_rebuild(dict_setitem(d, key, min(d[key], value)), Tail(items), bad)
           ELSE iand_rebuild(d, Tail(items), bad)

\* The loop of lines 464-470 (the incremental branch of __iand__).
RECURSIVE iand_incremental(_, _, _, _)
iand_incremental(d, l, items, bad) ==
  IF items = <<>> THEN [d |-> d, l |-> l, err |-> "ok"]
  ELSE LET key == items[1][1]
           value == items[1][2]
       IN  IF key \in DOMAIN d
           THEN IF ~Contains(l, <<d[key], key>>) THEN [d |-> d, l |-> l, err |-> "ValueError"]
                ELSE LET old_value == d[key]
                         l1 == SortedList_remove(l, <<old_value, key>>)
                     IN  IF key \in bad THEN [d |-> d, l |-> l1, err |-> "TypeError"]
                         ELSE iand_incremental(dict_setitem(d, key, min(old_value, value)),
                                SortedList_add(l1, <<min(old_value, value), key>>), Tail(items), bad)
           ELSE iand_incremental(d, l,
                  Tail(items), bad)

\* __iand__ with the empty branch of __ior__: an empty self is loaded with
\* that.
__iand__loads_that(d, l, items, bad) ==
  IF Cardinality(DOMAIN d) = 0
  THEN LET d1 == dict_update(d, items)
       IN  Return(d1, SortedList_update(l, value_key_pairs(d1)), None, "empty")
  ELSE IF Len(items) * MergeRatio > Cardinality(DOMAIN d)
  THEN LET r == iand_rebuild(d, items, bad)
       IN  IF r.err # "ok" THEN Raise(r.d, <<>>, r.err, "rebuild")
           ELSE Return(r.d, SortedList_update(<<>>, value_key_pairs(r.d)), None, "rebuild")
  ELSE LET r == iand_incremental(d, l, items, bad)
       IN  [d |-> r.d, l |-> r.l, err |-> r.err, ret |-> None, branch |-> "incremental"]

\* __iand__ (lines 451-471): min(v1, v2).
__iand__(d, l, items, bad) ==
  IF Cardinality(DOMAIN d) = 0
  THEN LET d1 == <<>>
       IN  Return(d1, <<>>, None, "empty")
  ELSE IF Len(items) * MergeRatio > Cardinality(DOMAIN d)
  THEN LET r == iand_rebuild(d, items, bad)
       IN  IF r.err # "ok" THEN Raise(r.d, <<>>, r.err, "rebuild")
           ELSE Return(r.d, SortedList_update(<<>>, value_key_pairs(r.d)), None, "rebuild")
  ELSE LET r == iand_incremental(d, l, items, bad)
       IN  [d |-> r.d, l |-> r.l, err |-> r.err, ret |-> None, branch |-> "incremental"]

\* The loop of __add__ without its else branch: a key only that holds is
\* not introduced.
RECURSIVE add_loop_no_else(_, _, _)
add_loop_no_else(d, items, bad) ==
  IF items = <<>> THEN [d |-> d, err |-> "ok"]
  ELSE LET key == items[1][1]
           value == items[1][2]
       IN  IF key \in DOMAIN d
           THEN add_loop_no_else(dict_setitem(d, key, d[key] + value), Tail(items), bad)
           ELSE add_loop_no_else(d, Tail(items), bad)

\* The loop of lines 478-482 (__add__).
RECURSIVE add_loop(_, _, _)
add_loop(d, items, bad) ==
  IF items = <<>> THEN [d |-> d, err |-> "ok"]
  ELSE LET key == items[1][1]
           value == items[1][2]
       IN  IF key \in DOMAIN d
           THEN IF key \in bad THEN [d |-> d, err |-> "TypeError"]
                ELSE add_loop(dict_setitem(d, key, d[key] + value), Tail(items), bad)
           ELSE add_loop(dict_setitem(d, key, value), Tail(items), bad)

\* __add__ (lines 473-484): a new container of the sums.  The outcome holds the indices of
\* the new container; self is not touched.
__add__(d, l, items, bad) ==
  LET r == add_loop(d, items, bad)
  IN  IF r.err # "ok" THEN Raise(<<>>, <<>>, r.err, "-")
      ELSE Return(r.d, SortedList_update(<<>>, value_key_pairs(r.d)), None, "-")

\* The loop of __sub__ with the operands of the subtraction swapped.
RECURSIVE sub_loop_swapped(_, _, _)
sub_loop_swapped(d, items, bad) ==
  IF items = <<>> THEN [d |-> d, err |-> "ok"]
  ELSE LET key == items[1][1]
           value == items[1][2]
       IN  IF key \in DOMAIN d
           THEN sub_loop_swapped(dict_setitem(d, key, value - d[key]), Tail(items), bad)
           ELSE sub_loop_swapped(d, Tail(items), bad)

\* The loop of lines 491-493 (__sub__).
RECURSIVE sub_loop(_, _, _)
sub_loop(d, items, bad) ==
  IF items = <<>> THEN [d |-> d, err |-> "ok"]
  ELSE LET key == items[1][1]
           value == items[1][2]
       IN  IF key \in DOMAIN d
           THEN IF key \in bad THEN [d |-> d, err |-> "TypeError"]
                ELSE sub_loop(dict_setitem(d, key, d[key] - value), Tail(items), bad)
           ELSE sub_loop(d, Tail(items), bad)

\* __sub__ (lines 486-495): a new container of the differences.  The outcome holds the indices of
\* the new container; self is not touched.
__sub__(d, l, items, bad) ==
  LET r == sub_loop(d, items, bad)
  IN  IF r.err # "ok" THEN Raise(<<>>, <<>>, r.err, "-")
      ELSE Return(r.d, SortedList_update(<<>>, value_key_pairs(r.d)), None, "-")

\* The loop of lines 502-506 (__or__).
RECURSIVE or_loop(_, _, _)
or_loop(d, items, bad) ==
  IF items = <<>> THEN [d |-> d, err |-> "ok"]
  ELSE LET key == items[1][1]
           value == items[1][2]
       IN  IF key \in DOMAIN d
           THEN IF key \in bad THEN [d |-> d, err |-> "TypeError"]
                ELSE or_loop(dict_setitem(d, key, max(d[key], value)), Tail(items), bad)
           ELSE or_loop(dict_setitem(d, key, value), Tail(items), bad)

\* __or__ (lines 497-508): a new container of the maxima.  The outcome holds the indices of
\* the new container; self is not touched.
__or__(d, l, items, bad) ==
  LET r == or_loop(d, items, bad)
  IN  IF r.err # "ok" THEN Raise(<<>>, <<>>, r.err, "-")
      ELSE Return(r.d, SortedList_update(<<>>, value_key_pairs(r.d)), None, "-")

\* The loop of lines 515-517 (__and__).
RECURSIVE and_loop(_, _, _)
and_loop(d, items, bad) ==
  IF items = <<>> THEN [d |-> d, err |-> "ok"]
  ELSE LET key == items[1][1]
           value == items[1][2]
       IN  IF key \in DOMAIN d
           THEN IF key \in bad THEN [d |-> d, err |-> "TypeError"]
                ELSE and_loop(dict_setitem(d, key, min(d[key], value)), Tail(items), bad)
           ELSE and_loop(d, Tail(items), bad)

\* __and__ (lines 510-519): a new container of the minima.  The outcome holds the indices of
\* the new container; self is not touched.
__and__(d, l, items, bad) ==
  LET r == and_loop(d, items, bad)
  IN  IF r.err # "ok" THEN Raise(<<>>, <<>>, r.err, "-")
      ELSE Return(r.d, SortedList_update(<<>>, value_key_pairs(r.d)), None, "-")

(***************************************************************************)
(* tally and subtract: the elements are counted by a Counter, which is     *)
(* then merged in.                                                         *)
(***************************************************************************)
\* collections.Counter(elements) of a sequence of keys.
Counter(elements) ==
  [k \in {elements[i] : i \in DOMAIN elements} |->
      Cardinality({i \in DOMAIN elements : elements[i] = k})]

\* The sequences a mapping's items can be iterated in.
Orderings(m) ==
  LET n == Cardinality(DOMAIN m)
  IN  {[i \in 1..n |-> <<f[i], m[f[i]]>>] :
         f \in {g \in [1..n -> DOMAIN m] : \A i, j \in 1..n : i # j => g[i] # g[j]}}

\* A sequence back to front.
Reverse(s) == [i \in 1..Len(s) |-> s[Len(s) + 1 - i]]

\* Two of those sequences: by ascending key, and by descending key.
KeyOrders(m) ==
  LET up == SortedList_update(<<>>, {<<k, m[k]>> : k \in DOMAIN m})
  IN  {up, Reverse(up)}

\* tally (lines 312-319): self += Counter(elements); counter_items are the
\* Counter's items in iteration order.
tally(d, l, counter_items) == __iadd__(d, l, counter_items, {})

\* subtract (lines 304-310): self -= Counter(elements).
subtract(d, l, counter_items) == __isub__(d, l, counter_items, {})

(***************************************************************************)
(* Construction with one positional argument arg, a record of its kind     *)
(* ("keys": a sequence of keys, "pairs": a sequence of (key, value)) and   *)
(* the sequence seq.                                                       *)
(***************************************************************************)
\* dict(iterable) (line 340) takes every element of the iterable for a
\* (key, value) pair: an element that is a key, and no pair, makes it raise.
dict_raises(arg) == arg.kind = "keys" /\ arg.seq # <<>>

\* dict(iterable) when it does not raise.
dict_new(arg) == IF arg.kind = "keys" THEN <<>> ELSE dict_update(<<>>, arg.seq)

\* __init__ (lines 118-147): the indices are created empty and update is
\* called with the argument; items is dict(arg) in iteration order.
__init__(arg, items) ==
  IF dict_raises(arg) THEN Raise(<<>>, <<>>, "TypeError", "-")
  ELSE update(<<>>, <<>>, items)

\* iteritems (lines 587-589) and iter(items()) (lines 875-883): (key, value)
\* for the (value, key) tuples of the list, in the order of the list.
iteritems(d, l) == [i \in 1..Len(l) |-> <<l[i][2], l[i][1]>>]

\* __eq__ (lines 521-525) with another PriorityDict, whose mapping is
\* that_dict: the two mappings are compared.
__eq__(d, that_dict) == d = that_dict

\* most_common (lines 287-302).  count is None or <<n>>.  xrange_defined: the
\* interpreter has the builtin xrange (Python 2 has, Python 3 has not); the
\* name is looked up when the generator of line 301 is created.
most_common(d, l, count, xrange_defined) ==
  IF count = None
  THEN Return(d, l, [i \in 1..Len(l) |-> <<Reverse(l)[i][2], Reverse(l)[i][1]>>], "-")
  ELSE LET end == Cardinality(DOMAIN d) - 1
           start == max(end - count[1], 0 - 1)
           n == IF end > start THEN end - start ELSE 0
       IN  IF ~xrange_defined THEN Raise(d, l, "NameError", "-")
           ELSE IF n > 0 /\ end >= Len(l) THEN Raise(d, l, "IndexError", "-")
           ELSE Return(d, l, [i \in 1..n |-> <<l[end - i + 2][2], l[end - i + 2][1]>>], "-")

\* The attributes a ValuesView is given by its __init__ (lines 766-774).
ValuesView_attributes == {"_list", "_view"}

\* ValuesView.index (lines 812-822): the position of bisect_left is compared
\* with len(self._dict), and the value there with value.
ValuesView_index(d, l, value) ==
  LET pos == bisect_left(d, l, value)
  IN  IF "_dict" \notin ValuesView_attributes THEN Raise(d, l, "AttributeError", "-")
      ELSE IF pos = Cardinality(DOMAIN d) THEN Raise(d, l, "ValueError", "-")
      ELSE IF pos >= Len(l) THEN Raise(d, l, "IndexError", "-")
      ELSE IF l[pos + 1][1] # value THEN Raise(d, l, "ValueError", "-")
      ELSE Return(d, l, <<pos>>, "-")

\* ValuesView.count (lines 823-827).
ValuesView_count(d, l, value) ==
  LET start == bisect_left(d, l, value)
      end == bisect_right(d, l, value)
  IN  Return(d, l, <<end - start>>, "-")

\* __le__ that passes over the keys that does not hold.
__le__shared_keys_only(d, that_dict) ==
  /\ Cardinality(DOMAIN d) <= Cardinality(DOMAIN that_dict)
  /\ \A key \in DOMAIN d : IF key \in DOMAIN that_dict THEN d[key] <= that_dict[key] ELSE TRUE

\* __le__ (lines 540-547): the sizes are compared, then every key of self
\* with that.
__le__(d, that_dict) ==
  /\ Cardinality(DOMAIN d) <= Cardinality(DOMAIN that_dict)
  /\ \A key \in DOMAIN d : IF key \in DOMAIN that_dict THEN d[key] <= that_dict[key] ELSE FALSE

\* __lt__ (lines 533-538).
__lt__(d, that_dict) == d # that_dict /\ __le__(d, that_dict)

\* __ge__ (lines 556-563): the sizes are compared, then every key of that
\* with self.
__ge__(d, that_dict) ==
  /\ Cardinality(DOMAIN d) >= Cardinality(DOMAIN that_dict)
  /\ \A key \in DOMAIN that_dict : IF key \in DOMAIN d THEN d[key] >= that_dict[key] ELSE FALSE

\* __gt__ (lines 549-554).
__gt__(d, that_dict) == d # that_dict /\ __ge__(d, that_dict)

(***************************************************************************)
(* The arguments the operations are called with.                           *)
(***************************************************************************)
\* The mappings of at most n keys of K to values of V.
Mappings(K, V, n) ==
  UNION {[D -> V] : D \in {E \in SUBSET K : Cardinality(E) <= n}}

\* Their items, in every iteration order.
ItemSeqs(K, V, n) == UNION {Orderings(m) : m \in Mappings(K, V, n)}

ItemKeys(items) == {items[i][1] : i \in DOMAIN items}

\* The sequences of at most n keys.
KeySeqs(K, n) == UNION {[1..m -> K] : m \in 0..n}

Positions == (0 - MaxKey - 1)..(MaxKey + 1)

\* The values bisection is asked about: the stored ones and one beyond on
\* either side.
Probes == (0 - 2)..(MaxVal + 1)

SliceBounds == {<<>>} \cup {<<i>> : i \in Positions}

Slices == [start : SliceBounds, stop : SliceBounds]

\* Values stay in the modelled range.
InRange(d) == \A k \in DOMAIN d : d[k] \in Values

(***************************************************************************)
(* The container under a caller that calls one method at a time.  op is    *)
(* the method whose outcome (err, ret, branch) the caller is looking at,   *)
(* "idle" when it looks at none; that holds the arguments of the call,     *)
(* self0 and list0 the two indices as they were before it.  failed: some   *)
(* call has raised.                                                        *)
(***************************************************************************)
Idle == op = "idle"

\* The outcome o of method name, called with the arguments arg, becomes the
\* state.
Outcome(name, arg, o) ==
  /\ InRange(o.d)
  /\ _dict' = o.d
  /\ _list' = o.l
  /\ that' = arg
  /\ op' = name
  /\ branch' = o.branch
  /\ err' = o.err
  /\ ret' = o.ret
  /\ failed' = (failed \/ o.err # "ok")
  /\ self0' = _dict
  /\ list0' = _list
  /\ UNCHANGED result

\* __init__ (lines 144-147) with no arguments.
Init ==
  /\ _dict = <<>>
  /\ _list = <<>>
  /\ op = "idle"
  /\ branch = "-"
  /\ err = "ok"
  /\ ret = None
  /\ failed = FALSE
  /\ self0 = None
  /\ list0 = None
  /\ that = None
  /\ result = None

\* The caller drops the outcome it has looked at and goes on.  A TypeError
\* ends the caller: it has passed a value of the wrong type, and it makes
\* no further call.
Forget ==
  /\ ~Idle
  /\ err # "TypeError"
  /\ op' = "idle"
  /\ branch' = "-"
  /\ err' = "ok"
  /\ ret' = None
  /\ that' = None
  /\ self0' = None
  /\ list0' = None
  /\ UNCHANGED <<_dict, _list, failed, result>>

SetItem ==
  /\ Idle
  /\ \E key \in Keys, value \in Values, incomparable \in BOOLEAN :
       \* An incomparable value is passed when the list, once the old tuple
       \* of the key is removed, still holds a tuple to compare it with.
       /\ incomparable => Len(_list) > (IF key \in DOMAIN _dict THEN 1 ELSE 0)
       /\ incomparable => value = 0
       /\ Outcome("__setitem__", <<key, value, incomparable>>, __setitem__(_dict, _list, key, value, incomparable))

DelItem == Idle /\ \E key \in Keys : Outcome("__delitem__", <<key>>, __delitem__(_dict, _list, key))

GetItem == Idle /\ \E key \in Keys : Outcome("__getitem__", <<key>>, __getitem__(_dict, _list, key))

Pop ==
  /\ Idle
  /\ \E key \in Keys, has_default \in BOOLEAN :
       Outcome("pop", <<key, has_default>>, pop(_dict, _list, key, has_default, 0))

PopItem == Idle /\ \E position \in Positions : Outcome("popitem", <<position>>, popitem(_dict, _list, position))

SetDefault ==
  /\ Idle
  /\ \E key \in Keys, default \in Values :
       Outcome("setdefault", <<key, default>>, setdefault(_dict, _list, key, default))

Index == Idle /\ \E key \in Keys : Outcome("index", <<key>>, index(_dict, _list, key))

Clear == Idle /\ Outcome("clear", <<>>, clear(_dict, _list))

Clean == Idle /\ \E value \in Values : Outcome("clean", <<value>>, clean(_dict, _list, value))

BisectLeft ==
  /\ Idle
  /\ \E value \in Probes :
       Outcome("bisect_left", <<value>>,
               Return(_dict, _list, <<bisect_left(_dict, _list, value)>>, "-"))

Bisect ==
  /\ Idle
  /\ \E value \in Probes :
       Outcome("bisect", <<value>>,
               Return(_dict, _list, <<bisect(_dict, _list, value)>>, "-"))

BisectRight ==
  /\ Idle
  /\ \E value \in Probes :
       Outcome("bisect_right", <<value>>,
               Return(_dict, _list, <<bisect_right(_dict, _list, value)>>, "-"))

ValuesIndex ==
  /\ Idle
  /\ \E value \in Probes :
       Outcome("values.index", <<value>>, ValuesView_index(_dict, _list, value))

ValuesCount ==
  /\ Idle
  /\ \E value \in Probes :
       Outcome("values.count", <<value>>, ValuesView_count(_dict, _list, value))

\* most_common() and most_common(count), under either interpreter.
MostCommon ==
  /\ Idle
  /\ \E count \in {None} \cup {<<n>> : n \in 0..(MaxKey + 1)}, xrange_defined \in BOOLEAN :
       Outcome("most_common", <<count, xrange_defined>>,
               most_common(_dict, _list, count, xrange_defined))

IlocGetItem ==
  /\ Idle
  /\ \E position \in Positions :
       Outcome("iloc.__getitem__", <<position>>, iloc__getitem__(_dict, _list, position))

IlocGetSlice ==
  /\ Idle
  /\ \E s \in Slices : Outcome("iloc.__getitem__[:]", <<s>>, iloc__getslice__(_dict, _list, s))

IlocDelItem ==
  /\ Idle
  /\ \E position \in Positions :
       Outcome("iloc.__delitem__", <<position>>, iloc__delitem__(_dict, _list, position))

IlocDelSlice ==
  /\ Idle
  /\ \E s \in Slices : Outcome("iloc.__delitem__[:]", <<s>>, iloc__delslice__(_dict, _list, s))

Update ==
  /\ Idle
  /\ \E items \in ItemSeqs(Keys, Values, MaxThat) :
       Outcome("update", <<items>>, update(_dict, _list, items))

Tally ==
  /\ Idle
  /\ \E elements \in KeySeqs(Keys, MaxThat + 1) :
       \E counter_items \in Orderings(Counter(elements)) :
         Outcome("tally", <<elements>>, tally(_dict, _list, counter_items))

Subtract ==
  /\ Idle
  /\ \E elements \in KeySeqs(Keys, MaxThat + 1) :
       \E counter_items \in Orderings(Counter(elements)) :
         Outcome("subtract", <<elements>>, subtract(_dict, _list, counter_items))

\* A new container is constructed from a sequence of keys or of pairs, and
\* takes the place of the old one.
New ==
  /\ Idle
  /\ \E arg \in [kind : {"keys"}, seq : KeySeqs(Keys, MaxThat)]
                \cup [kind : {"pairs"}, seq : ItemSeqs(Keys, Values, MaxThat)] :
       \E items \in Orderings(dict_new(arg)) :
         Outcome("__init__", <<arg>>, __init__(arg, items))

\* The arguments of an in-place merge: the items of that, and the keys of
\* that whose value is of an incompatible type (keys self holds, since on
\* any other key the value is stored without being looked at).
IAdd ==
  /\ Idle
  /\ \E items \in ItemSeqs(Keys, Counts, MaxThat) :
       \E bad \in SUBSET (ItemKeys(items) \cap DOMAIN _dict) :
         Outcome("__iadd__", <<items, bad>>, __iadd__(_dict, _list, items, bad))

ISub ==
  /\ Idle
  /\ \E items \in ItemSeqs(Keys, Counts, MaxThat) :
       \E bad \in SUBSET (ItemKeys(items) \cap DOMAIN _dict) :
         Outcome("__isub__", <<items, bad>>, __isub__(_dict, _list, items, bad))

IOr ==
  /\ Idle
  /\ \E items \in ItemSeqs(Keys, Counts, MaxThat) :
       \E bad \in SUBSET (ItemKeys(items) \cap DOMAIN _dict) :
         Outcome("__ior__", <<items, bad>>, __ior__(_dict, _list, items, bad))

IAnd ==
  /\ Idle
  /\ \E items \in ItemSeqs(Keys, Counts, MaxThat) :
       \E bad \in SUBSET (ItemKeys(items) \cap DOMAIN _dict) :
         Outcome("__iand__", <<items, bad>>, __iand__(_dict, _list, items, bad))

Next ==
  \/ Forget
  \/ New
  \/ SetItem
  \/ DelItem
  \/ GetItem
  \/ Pop
  \/ PopItem
  \/ SetDefault
  \/ Index
  \/ Clear
  \/ Clean
  \/ BisectLeft
  \/ Bisect
  \/ BisectRight
  \/ ValuesIndex
  \/ ValuesCount
  \/ MostCommon
  \/ IlocGetItem
  \/ IlocGetSlice
  \/ IlocDelItem
  \/ IlocDelSlice
  \/ Update
  \/ Tally
  \/ Subtract
  \/ IAdd
  \/ ISub
  \/ IOr
  \/ IAnd

Spec == Init /\ [][Next]_vars

\* The items iter_items(that) yields (lines 40-44) when that is the container
\* itself, or a copy() of it, which holds the same _dict and _list (lines 211-217):
\* iteritems (lines 587-589), or ItemsView.__iter__ (lines 875-883), walks the
\* _list of that as it is when the loop starts.
self_items(d, l) == iteritems(d, l)

\* __iadd__ (lines 381-403) with that the container itself.  len(that) is
\* len(_dict), so that a container that is not empty takes the rebuild branch;
\* there _list.clear() (line 388) empties the list the loop then walks.
__iadd__self(d, l) ==
  IF Cardinality(DOMAIN d) = 0
  THEN LET d1 == dict_update(d, self_items(d, l))
       IN  Return(d1, SortedList_update(l, value_key_pairs(d1)), None, "empty")
  ELSE IF Cardinality(DOMAIN d) * MergeRatio > Cardinality(DOMAIN d)
  THEN LET l1 == <<>>
           r == iadd_rebuild(d, self_items(d, l1), {})
       IN  Return(r.d, SortedList_update(l1, value_key_pairs(r.d)), None, "rebuild")
  ELSE LET r == iadd_incremental(d, l, self_items(d, l), {})
       IN  [d |-> r.d, l |-> r.l, err |-> r.err, ret |-> None, branch |-> "incremental"]

\* __isub__ (lines 405-425) with that the container itself.
__isub__self(d, l) ==
  IF Cardinality(DOMAIN d) = 0
  THEN Return(<<>>, <<>>, None, "empty")
  ELSE IF Cardinality(DOMAIN d) * MergeRatio > Cardinality(DOMAIN d)
  THEN LET l1 == <<>>
           r == isub_rebuild(d, self_items(d, l1), {})
       IN  Return(r.d, SortedList_update(l1, value_key_pairs(r.d)), None, "rebuild")
  ELSE LET r == isub_incremental(d, l, self_items(d, l), {})
       IN  [d |-> r.d, l |-> r.l, err |-> r.err, ret |-> None, branch |-> "incremental"]

\* __ior__ (lines 427-449) with that the container itself.
__ior__self(d, l) ==
  IF Cardinality(DOMAIN d) = 0
  THEN LET d1 == dict_update(d, self_items(d, l))
       IN  Return(d1, SortedList_update(l, value_key_pairs(d1)), None, "empty")
  ELSE IF Cardinality(DOMAIN d) * MergeRatio > Cardinality(DOMAIN d)
  THEN LET l1 == <<>>
           r == ior_rebuild(d, self_items(d, l1), {})
       IN  Return(r.d, SortedList_update(l1, value_key_pairs(r.d)), None, "rebuild")
  ELSE LET r == ior_incremental(d, l, self_items(d, l), {})
       IN  [d |-> r.d, l |-> r.l, err |-> r.err, ret |-> None, branch |-> "incremental"]

\* __iand__ (lines 451-471) with that the container itself.
__iand__self(d, l) ==
  IF Cardinality(DOMAIN d) = 0
  THEN Return(<<>>, <<>>, None, "empty")
  ELSE IF Cardinality(DOMAIN d) * MergeRatio > Cardinality(DOMAIN d)
  THEN LET l1 == <<>>
           r == iand_rebuild(d, self_items(d, l1), {})
       IN  Return(r.d, SortedList_update(l1, value_key_pairs(r.d)), None, "rebuild")
  ELSE LET r == iand_incremental(d, l, self_items(d, l), {})
       IN  [d |-> r.d, l |-> r.l, err |-> r.err, ret |-> None, branch |-> "incremental"]

(***************************************************************************)
(* One merge of a container A = (_dict, _list) with a mapping B = that, a  *)
(* different object.  self0 keeps A's Mapping Index as it was before the   *)
(* merge; result is the container a copy-producing merge returns.  B is   *)
(* iterated by ascending or by descending key.                             *)
(***************************************************************************)
\* The indices of a container that holds the mapping m.
container(m) == [d |-> m, l |-> SortedList_update(<<>>, value_key_pairs(m))]

InitMerge ==
  /\ _dict \in Mappings(Keys, Values, MaxKey)
  /\ _list = container(_dict).l
  /\ that \in Mappings(Keys, Counts, MaxOther)
  /\ self0 = _dict
  /\ list0 = _list
  /\ op = "idle"
  /\ branch = "-"
  /\ err = "ok"
  /\ ret = None
  /\ failed = FALSE
  /\ result = None

\* The outcome o of the in-place merge name.
InPlace(name, o) ==
  /\ _dict' = o.d
  /\ _list' = o.l
  /\ op' = name
  /\ branch' = o.branch
  /\ err' = o.err
  /\ ret' = o.ret
  /\ failed' = (failed \/ o.err # "ok")
  /\ UNCHANGED <<self0, list0, that, result>>

\* The outcome o of the copy-producing merge name.
Copying(name, o) ==
  /\ result' = [d |-> o.d, l |-> o.l]
  /\ op' = name
  /\ branch' = o.branch
  /\ err' = o.err
  /\ ret' = o.ret
  /\ failed' = (failed \/ o.err # "ok")
  /\ UNCHANGED <<_dict, _list, self0, list0, that>>

MergeIAdd ==
  Idle /\ \E items \in KeyOrders(that) : InPlace("__iadd__", __iadd__(_dict, _list, items, {}))

MergeISub ==
  Idle /\ \E items \in KeyOrders(that) : InPlace("__isub__", __isub__(_dict, _list, items, {}))

MergeIOr ==
  Idle /\ \E items \in KeyOrders(that) : InPlace("__ior__", __ior__(_dict, _list, items, {}))

MergeIAnd ==
  Idle /\ \E items \in KeyOrders(that) : InPlace("__iand__", __iand__(_dict, _list, items, {}))

MergeAdd ==
  Idle /\ \E items \in KeyOrders(that) : Copying("__add__", __add__(_dict, _list, items, {}))

MergeSub ==
  Idle /\ \E items \in KeyOrders(that) : Copying("__sub__", __sub__(_dict, _list, items, {}))

MergeOr ==
  Idle /\ \E items \in KeyOrders(that) : Copying("__or__", __or__(_dict, _list, items, {}))

MergeAnd ==
  Idle /\ \E items \in KeyOrders(that) : Copying("__and__", __and__(_dict, _list, items, {}))

\* A -= B after A += B has returned, with the same B.
MergeIAddISub ==
  /\ op = "__iadd__"
  /\ err = "ok"
  /\ \E items \in KeyOrders(that) :
       InPlace("__iadd__,__isub__", __isub__(_dict, _list, items, {}))

\* (A + B) - B: __sub__ on the container A + B has returned, with the same B.
MergeAddSub ==
  /\ op = "__add__"
  /\ err = "ok"
  /\ \E items \in KeyOrders(that) :
       Copying("__add__,__sub__", __sub__(result.d, result.l, items, {}))

\* The comparisons of A with B; they return a truth value and write nothing.
CompareLt == Idle /\ InPlace("__lt__", Return(_dict, _list, <<__lt__(_dict, that)>>, "-"))

CompareLe == Idle /\ InPlace("__le__", Return(_dict, _list, <<__le__(_dict, that)>>, "-"))

CompareGt == Idle /\ InPlace("__gt__", Return(_dict, _list, <<__gt__(_dict, that)>>, "-"))

CompareGe == Idle /\ InPlace("__ge__", Return(_dict, _list, <<__ge__(_dict, that)>>, "-"))

\* The in-place merges of A with A itself as the right operand.
SelfIAdd == Idle /\ InPlace("__iadd__(self)", __iadd__self(_dict, _list))

SelfISub == Idle /\ InPlace("__isub__(self)", __isub__self(_dict, _list))

SelfIOr == Idle /\ InPlace("__ior__(self)", __ior__self(_dict, _list))

SelfIAnd == Idle /\ InPlace("__iand__(self)", __iand__self(_dict, _list))

NextMerge ==
  \/ SelfIAdd
  \/ SelfISub
  \/ SelfIOr
  \/ SelfIAnd
  \/ CompareLt
  \/ CompareLe
  \/ CompareGt
  \/ CompareGe
  \/ MergeIAddISub
  \/ MergeAddSub
  \/ MergeIAdd
  \/ MergeISub
  \/ MergeIOr
  \/ MergeIAnd
  \/ MergeAdd
  \/ MergeSub
  \/ MergeOr
  \/ MergeAnd

SpecMerge == InitMerge /\ [][NextMerge]_vars

(***************************************************************************)
(* update and construction on containers large enough for both strategy    *)
(* paths of update.  that keeps the argument, self0 the Mapping Index      *)
(* before the call.                                                        *)
(***************************************************************************)
\* The containers of keys 1..n, for every n up to MaxBigKey.
BigMappings ==
  {[k \in 1..n |-> ((k + s) % (MaxVal + 2)) - 1] : n \in 0..MaxBigKey, s \in 0..(MaxVal + 1)}

InitUpdate ==
  /\ _dict \in BigMappings
  /\ _list = container(_dict).l
  /\ that = None
  /\ self0 = _dict
  /\ list0 = _list
  /\ op = "idle"
  /\ branch = "-"
  /\ err = "ok"
  /\ ret = None
  /\ failed = FALSE
  /\ result = None

\* The outcome o of the call name with the argument arg.
Called(name, arg, o) ==
  /\ _dict' = o.d
  /\ _list' = o.l
  /\ that' = arg
  /\ op' = name
  /\ branch' = o.branch
  /\ err' = o.err
  /\ ret' = o.ret
  /\ failed' = (failed \/ o.err # "ok")
  /\ UNCHANGED <<self0, list0, result>>

UpdateBig ==
  /\ Idle
  /\ \E items \in ItemSeqs(BigKeys, Values, MaxThat) :
       Called("update", items, update(_dict, _list, items))

\* The positional argument of the constructor: a sequence of keys, or a
\* sequence of (key, value) pairs.
InitArgs ==
  [kind : {"keys"}, seq : KeySeqs(Keys, MaxKey)]
    \cup [kind : {"pairs"}, seq : ItemSeqs(Keys, Values, MaxOther)]

\* A new container is constructed (and takes the place of the old one).
Construct ==
  /\ Idle
  /\ \E arg \in InitArgs :
       \E items \in Orderings(dict_new(arg)) :
         Called("__init__", arg, __init__(arg, items))

NextUpdate ==
  \/ UpdateBig
  \/ Construct

SpecUpdate == InitUpdate /\ [][NextUpdate]_vars

(***************************************************************************)
(* A container and a copy of it.  A container is its two fields, each a    *)
(* reference to an index object.  The objects of the original are _dict    *)
(* and _list; that holds the objects the new container is constructed      *)
(* with, result the fields of the container copy() returns.  self0 and     *)
(* list0 keep the indices as they were when the copy was made.             *)
(***************************************************************************)
\* The fields of the original.
Self == [_dict |-> "self._dict", _list |-> "self._list"]

\* copy (lines 211-217): that = PriorityDict() creates a container with two
\* empty index objects of its own, and its fields are then bound to the
\* objects the fields of self reference.
copy(self) ==
  [objects |-> [_dict |-> <<>>, _list |-> <<>>],
   fields |-> [_dict |-> self._dict, _list |-> self._list]]

InitCopy ==
  /\ _dict \in Mappings(Keys, Values, MaxKey)
  /\ _list = container(_dict).l
  /\ that = None
  /\ result = None
  /\ self0 = _dict
  /\ list0 = _list
  /\ op = "idle"
  /\ branch = "-"
  /\ err = "ok"
  /\ ret = None
  /\ failed = FALSE

Copy ==
  /\ Idle
  /\ that' = copy(Self).objects
  /\ result' = copy(Self).fields
  /\ op' = "copy"
  /\ UNCHANGED <<_dict, _list, branch, err, ret, failed, self0, list0>>

\* The object a reference names.
Deref(ref) ==
  CASE ref = "self._dict" -> _dict
    [] ref = "self._list" -> _list
    [] ref = "that._dict" -> that._dict
    [] ref = "that._list" -> that._list

\* The two containers the caller holds once the copy is made.
Holder(who) == IF who = "self" THEN Self ELSE result

\* The outcome o of the method name called on the container who: the
\* method writes to the objects the fields of the container reference.
Via(who, name, o) ==
  LET c == Holder(who)
  IN  /\ _dict' = IF c._dict = "self._dict" THEN o.d ELSE _dict
      /\ _list' = IF c._list = "self._list" THEN o.l ELSE _list
      /\ that' = [_dict |-> IF c._dict = "that._dict" THEN o.d ELSE that._dict,
                  _list |-> IF c._list = "that._list" THEN o.l ELSE that._list]
      /\ op' = IF who = "self" THEN name ELSE "copy." \o name
      /\ branch' = o.branch
      /\ err' = o.err
      /\ ret' = o.ret
      /\ failed' = (failed \/ o.err # "ok")
      /\ UNCHANGED <<result, self0, list0>>

\* The indices the container who sees.
SeenDict(who) == Deref(Holder(who)._dict)

SeenList(who) == Deref(Holder(who)._list)

CopySetItem ==
  /\ op = "copy"
  /\ \E who \in {"self", "copy"}, key \in Keys, value \in Values :
       Via(who, "__setitem__", __setitem__(SeenDict(who), SeenList(who), key, value, FALSE))

CopyDelItem ==
  /\ op = "copy"
  /\ \E who \in {"self", "copy"}, key \in Keys :
       Via(who, "__delitem__", __delitem__(SeenDict(who), SeenList(who), key))

CopyClear ==
  /\ op = "copy"
  /\ \E who \in {"self", "copy"} :
       Via(who, "clear", clear(SeenDict(who), SeenList(who)))

CopyClean ==
  /\ op = "copy"
  /\ \E who \in {"self", "copy"}, value \in Values :
       Via(who, "clean", clean(SeenDict(who), SeenList(who), value))

CopyIAdd ==
  /\ op = "copy"
  /\ \E who \in {"self", "copy"}, items \in ItemSeqs(Keys, Counts, MaxThat) :
       Via(who, "__iadd__", __iadd__(SeenDict(who), SeenList(who), items, {}))

NextCopy ==
  \/ Copy
  \/ CopySetItem
  \/ CopyDelItem
  \/ CopyClear
  \/ CopyClean
  \/ CopyIAdd

SpecCopy == InitCopy /\ [][NextCopy]_vars

(***************************************************************************)
(* A container and a view of it.  _dict and _list are the index objects of *)
(* the container: every method writes to the objects its fields reference, *)
(* and binds no field anew.  result holds the fields of the view, each a   *)
(* reference to an object; that holds the objects the view is constructed  *)
(* with, if any.                                                           *)
(***************************************************************************)
\* A KeysView that is constructed with the list of the keys as they are.
KeysView__init__snapshot(self, d, l) ==
  [objects |-> [_dict |-> d, _list |-> l],
   fields |-> [kind |-> "keys", _list |-> "that._list", _view |-> "that._dict"]]

\* KeysView.__init__ (lines 670-678): the view references the list of the
\* container, and the view of the keys of its dict.
KeysView__init__(self, d, l) ==
  [objects |-> None,
   fields |-> [kind |-> "keys", _list |-> self._list, _view |-> self._dict]]

\* ValuesView.__init__ (lines 766-774).
ValuesView__init__(self, d, l) ==
  [objects |-> None,
   fields |-> [kind |-> "values", _list |-> self._list, _view |-> self._dict]]

\* ItemsView.__init__ (lines 857-865).
ItemsView__init__(self, d, l) ==
  [objects |-> None,
   fields |-> [kind |-> "items", _list |-> self._list, _view |-> self._dict]]

\* __len__ of a view (lines 679-681, 775-777, 866-868): len(self._view).
View__len__(view) == Cardinality(DOMAIN Deref(view._view))

\* __iter__ of a view (lines 688-696, 784-792, 875-883): the keys, the
\* values or the (key, value) pairs of the tuples of self._list.
View__iter__(view) ==
  LET l == Deref(view._list)
  IN  [i \in 1..Len(l) |->
         CASE view.kind = "keys" -> l[i][2]
           [] view.kind = "values" -> l[i][1]
           [] view.kind = "items" -> <<l[i][2], l[i][1]>>]

InitView ==
  /\ _dict = <<>>
  /\ _list = <<>>
  /\ that = None
  /\ result = None
  /\ self0 = None
  /\ list0 = None
  /\ op = "idle"
  /\ branch = "-"
  /\ err = "ok"
  /\ ret = None
  /\ failed = FALSE

\* The caller drops the outcome it has looked at and goes on.
ViewForget ==
  /\ ~Idle
  /\ op' = "idle"
  /\ branch' = "-"
  /\ err' = "ok"
  /\ ret' = None
  /\ UNCHANGED <<_dict, _list, failed, self0, list0, that, result>>

\* The view v is created, by the method name.
Viewed(name, v) ==
  /\ Idle
  /\ result = None
  /\ that' = v.objects
  /\ result' = v.fields
  /\ op' = name
  /\ branch' = "-"
  /\ err' = "ok"
  /\ ret' = None
  /\ UNCHANGED <<_dict, _list, failed, self0, list0>>

\* keys (lines 601-612) and viewkeys (lines 618-626).
ViewKeys == Viewed("keys", KeysView__init__(Self, _dict, _list))

\* viewvalues (lines 642-650).
ViewValues == Viewed("viewvalues", ValuesView__init__(Self, _dict, _list))

\* items (lines 573-585) and viewitems (lines 591-599).
ViewItems == Viewed("items", ItemsView__init__(Self, _dict, _list))

\* The outcome o of the method name called on the container.
Mutated(name, o) ==
  /\ Idle
  /\ InRange(o.d)
  /\ _dict' = o.d
  /\ _list' = o.l
  /\ op' = name
  /\ branch' = o.branch
  /\ err' = o.err
  /\ ret' = o.ret
  /\ failed' = (failed \/ o.err # "ok")
  /\ UNCHANGED <<that, result, self0, list0>>

ViewSetItem ==
  \E key \in Keys, value \in Values :
    Mutated("__setitem__", __setitem__(_dict, _list, key, value, FALSE))

ViewDelItem == \E key \in Keys : Mutated("__delitem__", __delitem__(_dict, _list, key))

ViewPopItem == \E position \in Positions : Mutated("popitem", popitem(_dict, _list, position))

ViewClear == Mutated("clear", clear(_dict, _list))

ViewClean == \E value \in Values : Mutated("clean", clean(_dict, _list, value))

ViewUpdate ==
  \E items \in ItemSeqs(Keys, Values, MaxThat) : Mutated("update", update(_dict, _list, items))

ViewIAdd ==
  \E items \in ItemSeqs(Keys, Counts, MaxThat) :
    Mutated("__iadd__", __iadd__(_dict, _list, items, {}))

ViewISub ==
  \E items \in ItemSeqs(Keys, Counts, MaxThat) :
    Mutated("__isub__", __isub__(_dict, _list, items, {}))

ViewIOr ==
  \E items \in ItemSeqs(Keys, Counts, MaxThat) :
    Mutated("__ior__", __ior__(_dict, _list, items, {}))

ViewIAnd ==
  \E items \in ItemSeqs(Keys, Counts, MaxThat) :
    Mutated("__iand__", __iand__(_dict, _list, items, {}))

NextView ==
  \/ ViewForget
  \/ ViewKeys
  \/ ViewValues
  \/ ViewItems
  \/ ViewSetItem
  \/ ViewDelItem
  \/ ViewPopItem
  \/ ViewClear
  \/ ViewClean
  \/ ViewUpdate
  \/ ViewIAdd
  \/ ViewISub
  \/ ViewIOr
  \/ ViewIAnd

SpecView == InitView /\ [][NextView]_vars

(***************************************************************************)
(* The merges of two containers, self and that, each with two index        *)
(* objects of its own: _dict and _list are the objects of self, that holds *)
(* the objects of that, and result is the container a copy-producing merge *)
(* returns (its fields and its objects).  self0 keeps the index objects of *)
(* both operands as they were before the merge.                            *)
(***************************************************************************)
\* The fields of the right operand.
That == [_dict |-> "that._dict", _list |-> "that._list"]

\* result = PriorityDict() (lines 475, 488, 499, 512): the fields of a new
\* container reference two new, empty index objects.
Result == [_dict |-> "result._dict", _list |-> "result._list"]

\* The locals of a copy-producing merge bound to the index objects of self.
merge_locals_of_self(self, res) == [_dict |-> self._dict, _list |-> self._list]

\* _list, _dict = result._list, result._dict (lines 476, 489, 500, 513): the
\* index objects a copy-producing merge writes to.
merge_locals(self, res) == [_dict |-> res._dict, _list |-> res._list]

InitFrame ==
  /\ _dict \in Mappings(Keys, Values, MaxKey)
  /\ _list = container(_dict).l
  /\ that \in {[_dict |-> m, _list |-> container(m).l] : m \in Mappings(Keys, Counts, MaxThat)}
  /\ result = None
  /\ self0 = [self |-> [_dict |-> _dict, _list |-> _list], that |-> that]
  /\ list0 = _list
  /\ op = "idle"
  /\ branch = "-"
  /\ err = "ok"
  /\ ret = None
  /\ failed = FALSE

\* The outcome o of the method name is written to the index objects refs
\* names; returned is the container of the given fields, if any.
Store(name, refs, o, fields) ==
  /\ _dict' = IF refs._dict = "self._dict" THEN o.d ELSE _dict
  /\ _list' = IF refs._list = "self._list" THEN o.l ELSE _list
  /\ that' = [_dict |-> IF refs._dict = "that._dict" THEN o.d ELSE that._dict,
              _list |-> IF refs._list = "that._list" THEN o.l ELSE that._list]
  /\ result' =
       IF fields = None THEN result
       ELSE LET old == IF result = None THEN [_dict |-> <<>>, _list |-> <<>>]
                       ELSE result.objects
            IN  [fields |-> fields,
                 objects |-> [_dict |-> IF refs._dict = "result._dict" THEN o.d ELSE old._dict,
                              _list |-> IF refs._list = "result._list" THEN o.l ELSE old._list]]
  /\ op' = name
  /\ branch' = o.branch
  /\ err' = o.err
  /\ ret' = o.ret
  /\ failed' = (failed \/ o.err # "ok")
  /\ UNCHANGED <<self0, list0>>

\* The items iter_items(that) yields: that is walked by its list.
that_items == iteritems(that._dict, that._list)

FrameAdd ==
  Idle /\ Store("__add__", merge_locals(Self, Result), __add__(_dict, _list, that_items, {}), Result)

FrameSub ==
  Idle /\ Store("__sub__", merge_locals(Self, Result), __sub__(_dict, _list, that_items, {}), Result)

FrameOr ==
  Idle /\ Store("__or__", merge_locals(Self, Result), __or__(_dict, _list, that_items, {}), Result)

FrameAnd ==
  Idle /\ Store("__and__", merge_locals(Self, Result), __and__(_dict, _list, that_items, {}), Result)

\* _list, _dict = self._list, self._dict (lines 383, 407, 429, 453): an
\* in-place merge writes to the index objects of self.
FrameIAdd == Idle /\ Store("__iadd__", Self, __iadd__(_dict, _list, that_items, {}), None)

FrameISub == Idle /\ Store("__isub__", Self, __isub__(_dict, _list, that_items, {}), None)

FrameIOr == Idle /\ Store("__ior__", Self, __ior__(_dict, _list, that_items, {}), None)

FrameIAnd == Idle /\ Store("__iand__", Self, __iand__(_dict, _list, that_items, {}), None)

CopyMerges == {"__add__", "__sub__", "__or__", "__and__"}

\* A method of the container a copy-producing merge has returned: it writes
\* to the objects the fields of that container reference.
Returned == op \in CopyMerges /\ err = "ok"

ResultSetItem ==
  /\ Returned
  /\ \E key \in Keys, value \in Values :
       Store("result.__setitem__", result.fields,
             __setitem__(result.objects._dict, result.objects._list, key, value, FALSE),
             result.fields)

ResultDelItem ==
  /\ Returned
  /\ \E key \in Keys :
       Store("result.__delitem__", result.fields,
             __delitem__(result.objects._dict, result.objects._list, key), result.fields)

ResultClear ==
  /\ Returned
  /\ Store("result.clear", result.fields,
           clear(result.objects._dict, result.objects._list), result.fields)

ResultClean ==
  /\ Returned
  /\ \E value \in Values :
       Store("result.clean", result.fields,
             clean(result.objects._dict, result.objects._list, value), result.fields)

NextFrame ==
  \/ FrameAdd
  \/ FrameSub
  \/ FrameOr
  \/ FrameAnd
  \/ FrameIAdd
  \/ FrameISub
  \/ FrameIOr
  \/ FrameIAnd
  \/ ResultSetItem
  \/ ResultDelItem
  \/ ResultClear
  \/ ResultClean

SpecFrame == InitFrame /\ [][NextFrame]_vars

(***************************************************************************)
(* The invariants of the two indices (_check, lines 656-660).              *)
(***************************************************************************)
\* I1: the indices have the same size.
I1(d, l) == Cardinality(DOMAIN d) = Len(l)

\* I2: (v, k) is in the list exactly once iff k maps to v.
I2(d, l) ==
  /\ \A k \in DOMAIN d : Cardinality({i \in 1..Len(l) : l[i] = <<d[k], k>>}) = 1
  /\ \A i \in 1..Len(l) :
       /\ l[i][2] \in DOMAIN d
       /\ d[l[i][2]] = l[i][1]
       /\ Cardinality({j \in 1..Len(l) : l[j] = l[i]}) = 1

\* I3: the list ascends by (value, key).
I3(l) == \A i, j \in 1..Len(l) : i < j => ~tuple_lt(l[j], l[i])

\* __iter__ (lines 185-190) and __reversed__ (lines 192-197): the keys in
\* the order of the list, and in its reverse order.
__iter__(d, l) == [i \in 1..Len(l) |-> l[i][2]]

__reversed__(d, l) == [i \in 1..Len(l) |-> Reverse(l)[i][2]]

(***************************************************************************)
(* The claims.                                                             *)
(***************************************************************************)
\* C1: after every sequence of successful mutating operations the Mapping
\* Index and the Order Index have the same size, and (v, k) occurs in the
\* Order Index exactly once iff k maps to v in the Mapping Index.
C1_IndicesCorrespond == ~failed => (I1(_dict, _list) /\ I2(_dict, _list))

\* C1 witness: a full container after a successful incremental in-place sum
\* that followed other successful calls.
C1_Witness ==
  /\ ~failed
  /\ op = "__iadd__"
  /\ branch = "incremental"
  /\ Len(_list) = MaxKey
  /\ \E k \in DOMAIN _dict : _dict[k] # 0

\* C2: in every state reached by successful operations, ascending iteration
\* yields keys whose values do not decrease, keys of equal value ascend, and
\* descending iteration yields the reverse sequence.
C2_IterationSorted ==
  ~failed =>
    LET ks == __iter__(_dict, _list)
    IN  /\ I3(_list)
        /\ \A i \in 1..Len(ks) : ks[i] \in DOMAIN _dict
        /\ \A i, j \in 1..Len(ks) :
             (i < j /\ ks[i] \in DOMAIN _dict /\ ks[j] \in DOMAIN _dict) =>
               \/ _dict[ks[i]] < _dict[ks[j]]
               \/ (_dict[ks[i]] = _dict[ks[j]] /\ ks[i] < ks[j])
        /\ __reversed__(_dict, _list) = Reverse(ks)

\* C2 witness: a full container, reached by successful calls, in which two
\* keys tie on the value and a third has a smaller one.
C2_Witness ==
  /\ ~failed
  /\ Len(_list) = MaxKey
  /\ \E i, j, k \in DOMAIN _dict :
       i # j /\ _dict[i] = _dict[j] /\ _dict[k] < _dict[i]

\* The three invariants together.
Valid(d, l) == I1(d, l) /\ I2(d, l) /\ I3(l)

\* C3: after an operation that fails on a container whose indices are in
\* order, I1-I3 still hold (no partial index update is left).
C3_FailureKeepsInvariants ==
  [][(Valid(_dict, _list) /\ err' # "ok") => Valid(_dict', _list')]_vars

\* C4: a container constructed from a sequence of keys holds, for every
\* distinct key of the sequence, the number of times the key occurs in it.
C4_ConstructTallies ==
  (op = "__init__" /\ that.kind = "keys") =>
    (err = "ok" /\ _dict = Counter(that.seq))

\* C5: update(items) overwrites on both of its paths: afterwards every key
\* of items, also one the container did not hold, maps to the value items
\* gives it, and every other key keeps its value.
C5_UpdateOverwrites ==
  op = "update" =>
    /\ err = "ok"
    /\ \A i \in DOMAIN that :
         that[i][1] \in DOMAIN _dict /\ _dict[that[i][1]] = that[i][2]
    /\ \A k \in (DOMAIN self0) \ ItemKeys(that) :
         k \in DOMAIN _dict /\ _dict[k] = self0[k]

\* The mapping a merge has produced: self's for an in-place merge, the
\* returned container's for a copy-producing one.
Merged == IF op \in {"__add__", "__sub__", "__or__", "__and__"} THEN result.d ELSE _dict

\* C6: after an in-place merge of A with a mapping B that is another object,
\* A holds the mapping the copy-producing merge of A and B returns, on the
\* empty, the rebuild and the incremental branch alike.
C6_InPlaceEqualsCopy ==
  \A items \in Orderings(that) :
    /\ op = "__iadd__" =>
         (err = "ok" /\ _dict = __add__(self0, container(self0).l, items, {}).d)
    /\ op = "__isub__" =>
         (err = "ok" /\ _dict = __sub__(self0, container(self0).l, items, {}).d)
    /\ op = "__ior__" =>
         (err = "ok" /\ _dict = __or__(self0, container(self0).l, items, {}).d)
    /\ op = "__iand__" =>
         (err = "ok" /\ _dict = __and__(self0, container(self0).l, items, {}).d)

\* C6 witness: an incremental in-place sum that changed the value of a key
\* both operands hold.
C6_Witness ==
  /\ op = "__iadd__"
  /\ branch = "incremental"
  /\ \E k \in DOMAIN that : k \in DOMAIN self0 /\ _dict[k] # self0[k]

\* C7: the keys of a sum are the keys of A and of B; a key of both maps to
\* A's value plus B's value, a key of one operand to that operand's value.
C7_Sum ==
  op \in {"__iadd__", "__add__"} =>
    /\ err = "ok"
    /\ DOMAIN Merged = (DOMAIN self0) \cup (DOMAIN that)
    /\ \A k \in DOMAIN Merged :
         Merged[k] = IF k \in DOMAIN self0 /\ k \in DOMAIN that THEN self0[k] + that[k]
                     ELSE IF k \in DOMAIN self0 THEN self0[k]
                     ELSE that[k]

\* C7 witness: the sum of {1: 1} and {1: 1, 2: 0} is {1: 2, 2: 0}.
C7_Witness ==
  /\ op = "__add__"
  /\ self0 = (1 :> 1)
  /\ that = (1 :> 1 @@ 2 :> 0)
  /\ result.d = (1 :> 2 @@ 2 :> 0)

\* C8: the keys of a difference are the keys of A; a key of both maps to A's
\* value minus B's value and stays when that is zero or negative, a key of B
\* alone is not introduced, a key of A alone keeps its value.
C8_Difference ==
  op \in {"__isub__", "__sub__"} =>
    /\ err = "ok"
    /\ DOMAIN Merged = DOMAIN self0
    /\ \A k \in DOMAIN Merged :
         Merged[k] = IF k \in DOMAIN that THEN self0[k] - that[k] ELSE self0[k]

\* C8 witness: an in-place difference on the rebuild branch with a key that
\* went negative, a key that went to zero, and a key of B alone.
C8_Witness ==
  /\ op = "__isub__"
  /\ branch = "rebuild"
  /\ \E k \in DOMAIN _dict : k \in DOMAIN that /\ that[k] > 0 /\ _dict[k] < 0
  /\ \E k \in DOMAIN that : k \notin DOMAIN self0

\* C9: the keys of a minimum are the keys of A; a key of both maps to the
\* smaller of A's and B's value, a key of A alone keeps its value.
C9_Min ==
  op \in {"__iand__", "__and__"} =>
    /\ err = "ok"
    /\ DOMAIN Merged = DOMAIN self0
    /\ \A k \in DOMAIN Merged :
         Merged[k] = IF k \in DOMAIN that /\ that[k] < self0[k] THEN that[k] ELSE self0[k]

\* C9 witness: an in-place minimum with an empty A and a B that is not.
C9_Witness ==
  /\ op = "__iand__"
  /\ branch = "empty"
  /\ that # <<>>

\* C10: the keys of a maximum are the keys of A and of B; a key of both maps
\* to the larger of A's and B's value, a key of A alone keeps its value, a
\* key of B alone is introduced with B's value.
C10_Max ==
  op \in {"__ior__", "__or__"} =>
    /\ err = "ok"
    /\ DOMAIN Merged = (DOMAIN self0) \cup (DOMAIN that)
    /\ \A k \in DOMAIN Merged :
         Merged[k] = IF k \in DOMAIN self0 /\ k \in DOMAIN that
                     THEN (IF that[k] > self0[k] THEN that[k] ELSE self0[k])
                     ELSE IF k \in DOMAIN self0 THEN self0[k]
                     ELSE that[k]

\* C10 witness: an incremental in-place maximum that raised the value of a
\* key both operands hold.
C10_Witness ==
  /\ op = "__ior__"
  /\ branch = "incremental"
  /\ \E k \in DOMAIN that : k \in DOMAIN self0 /\ _dict[k] > self0[k]

\* C11: Sum(A, B) followed by Difference(result, B) gives every key of A
\* the value it had in A before the two merges, in place and copy-producing
\* alike.
C11_SumThenDifference ==
  /\ op = "__iadd__,__isub__" =>
       (err = "ok" /\ \A k \in DOMAIN self0 : k \in DOMAIN _dict /\ _dict[k] = self0[k])
  /\ op = "__add__,__sub__" =>
       (err = "ok" /\ \A k \in DOMAIN self0 : k \in DOMAIN result.d /\ result.d[k] = self0[k])

\* C11 witness: (A + B) - B for an A and a B that share a key on which B
\* is not zero, and a B that holds a key A does not.
C11_Witness ==
  /\ op = "__add__,__sub__"
  /\ \E k \in DOMAIN self0 : k \in DOMAIN that /\ that[k] # 0 /\ result.d[k] = self0[k]
  /\ \E k \in DOMAIN that : k \notin DOMAIN self0 /\ k \in DOMAIN result.d

\* The number of entries of the container whose value satisfies P.
CountValues(P(_)) == Cardinality({k \in DOMAIN _dict : P(_dict[k])})

Without(d, S) == [k \in (DOMAIN d) \ S |-> d[k]]

C14_AbsentKeyNotFound ==
  (op \in {"__delitem__", "__getitem__", "index"} /\ that[1] \notin DOMAIN self0) =>
    /\ err = "KeyError"
    /\ _dict = self0
    /\ _list = list0

\* C14 witness: del d[key] of an absent key raised on a container that
\* holds other keys.
C14_Witness ==
  /\ op = "__delitem__"
  /\ err = "KeyError"
  /\ that[1] \notin DOMAIN self0
  /\ Len(list0) = MaxKey - 1

\* C15: iloc[p], del iloc[p] and popitem(p) with p outside [-n, n), n the
\* number of entries (so every p when the container is empty), raise
\* IndexError and leave both indices as they were.
C15_PositionOutOfRange ==
  (/\ op \in {"iloc.__getitem__", "iloc.__delitem__", "popitem"}
   /\ (that[1] < 0 - Len(list0) \/ that[1] >= Len(list0))) =>
    /\ err = "IndexError"
    /\ _dict = self0
    /\ _list = list0

\* C15 witness: del iloc[-n - 1] raised on a full container.
C15_Witness ==
  /\ op = "iloc.__delitem__"
  /\ err = "IndexError"
  /\ Len(list0) = MaxKey
  /\ that[1] = 0 - MaxKey - 1

\* The list l without the elements at the 0-based positions of R.
SeqWithout(l, R) ==
  LET F[i \in 0..Len(l)] ==
        IF i = 0 THEN <<>>
        ELSE IF (i - 1) \in R THEN F[i - 1] ELSE Append(F[i - 1], l[i])
  IN  F[Len(l)]

\* The keys of the elements of l at the 0-based positions of R.
KeysAt(l, R) == {l[i + 1][2] : i \in R}

\* A bound of a slice that is given and lies beyond the ends of a container
\* of n entries.
Beyond(n, bound) == bound # <<>> /\ (bound[1] < 0 - n \/ bound[1] > n)

\* C16 as stated: del iloc[start:end] with a start or an end beyond the
\* ends of the container raises IndexError and removes no entry.
C16_SliceOutOfRangeFails ==
  (/\ op = "iloc.__delitem__[:]"
   /\ (Beyond(Len(list0), that[1].start) \/ Beyond(Len(list0), that[1].stop))) =>
    /\ err = "IndexError"
    /\ _dict = self0
    /\ _list = list0

\* The 0-based positions of a container of n entries that the slice s
\* selects: a negative bound counts from the end, and a bound is then
\* brought to the nearest of 0 and n.
Selected(n, s) ==
  LET from_end(b) == IF b < 0 THEN b + n ELSE b
      nearest(b) == IF from_end(b) < 0 THEN 0 ELSE IF from_end(b) > n THEN n ELSE from_end(b)
      lo == IF s.start = <<>> THEN 0 ELSE nearest(s.start[1])
      hi == IF s.stop = <<>> THEN n ELSE nearest(s.stop[1])
  IN  {i \in 0..(n - 1) : lo <= i /\ i < hi}

\* C16 as amended: del iloc[start:end] with a start or an end beyond the
\* ends of the container does not fail; the bound is brought to the nearest
\* end, and exactly the entries of the range so obtained (none when it is
\* empty) are removed from both indices.
C16_SliceOutOfRangeClamps ==
  (/\ op = "iloc.__delitem__[:]"
   /\ (Beyond(Len(list0), that[1].start) \/ Beyond(Len(list0), that[1].stop))) =>
    LET R == Selected(Len(list0), that[1])
    IN  /\ err = "ok"
        /\ _list = SeqWithout(list0, R)
        /\ _dict = Without(self0, KeysAt(list0, R))

\* C16 witness: del iloc[1:n + 1] on a full container removed every entry
\* but the first.
C16_Witness ==
  /\ op = "iloc.__delitem__[:]"
  /\ Len(list0) = MaxKey
  /\ that[1] = [start |-> <<1>>, stop |-> <<MaxKey + 1>>]
  /\ _list = <<list0[1]>>

\* A position, or a bound of a slice, that is in range for n entries.
PositionInRange(n, p) == 0 - n <= p /\ p < n

BoundInRange(n, bound) == bound = <<>> \/ (0 - n <= bound[1] /\ bound[1] <= n)

\* The 0-based positions an in-range positional delete selects.
Deleted ==
  IF op = "iloc.__delitem__"
  THEN {IF that[1] < 0 THEN that[1] + Len(list0) ELSE that[1]}
  ELSE Selected(Len(list0), that[1])

C18_RankSelectInverse ==
  /\ \A k \in DOMAIN _dict :
       LET rank == index(_dict, _list, k)
       IN  /\ rank.err = "ok"
           /\ iloc__getitem__(_dict, _list, rank.ret[1]).err = "ok"
           /\ iloc__getitem__(_dict, _list, rank.ret[1]).ret = <<k>>
  /\ \A p \in 0..(Cardinality(DOMAIN _dict) - 1) :
       LET at == iloc__getitem__(_dict, _list, p)
       IN  /\ at.err = "ok"
           /\ index(_dict, _list, at.ret[1]).err = "ok"
           /\ index(_dict, _list, at.ret[1]).ret = <<p>>

\* The methods that write to the indices, called on the original and on
\* the copy.
Mutators == {"__setitem__", "__delitem__", "clear", "clean", "__iadd__"}

CopyMutators == {"copy." \o name : name \in Mutators}

\* C19: right after copy() the copy equals the original; a later mutation
\* of the copy leaves both indices of the original as they were, and a
\* later mutation of the original leaves those of the copy as they were.
C19_CopyIndependent ==
  /\ op = "copy" => SeenDict("copy") = SeenDict("self")
  /\ op \in CopyMutators => (SeenDict("self") = self0 /\ SeenList("self") = list0)
  /\ op \in Mutators => (SeenDict("copy") = self0 /\ SeenList("copy") = list0)

\* C20: in every reachable state of a container D, the container
\* constructed from the sequence of D's items is equal to D, and its
\* indices satisfy I1-I3.
C20_RoundTrip ==
  LET arg == [kind |-> "pairs", seq |-> iteritems(_dict, _list)]
  IN  \A items \in Orderings(dict_new(arg)) :
        LET E == __init__(arg, items)
        IN  /\ E.err = "ok"
            /\ __eq__(E.d, _dict)
            /\ I1(E.d, E.l) /\ I2(E.d, E.l) /\ I3(E.l)

\* A is pointwise at most B: every key of A is a key of B, with a value in
\* A that is at most its value in B.
PointwiseLe(A, B) == DOMAIN A \subseteq DOMAIN B /\ \A k \in DOMAIN A : A[k] <= B[k]

\* C21: A <= B iff A is pointwise at most B; A < B iff A <= B and A is not
\* B; A >= B iff B <= A; A > B iff B < A.  The comparisons read the
\* Mapping Index only, and leave both indices as they were.
C21_PointwiseComparison ==
  op \in {"__lt__", "__le__", "__gt__", "__ge__"} =>
    /\ err = "ok"
    /\ _dict = self0 /\ _list = list0
    /\ op = "__le__" => (ret[1] <=> PointwiseLe(self0, that))
    /\ op = "__lt__" => (ret[1] <=> (PointwiseLe(self0, that) /\ self0 # that))
    /\ op = "__ge__" => (ret[1] <=> PointwiseLe(that, self0))
    /\ op = "__gt__" => (ret[1] <=> (PointwiseLe(that, self0) /\ that # self0))

\* C21 witness: A <= B is false for an A and a B of the same size in which
\* A holds a key B does not, and every shared key has a smaller value in A.
C21_Witness ==
  /\ op = "__le__"
  /\ ret = <<FALSE>>
  /\ Cardinality(DOMAIN self0) = Cardinality(DOMAIN that)
  /\ \E k \in DOMAIN self0 : k \notin DOMAIN that
  /\ \E k \in DOMAIN self0 : k \in DOMAIN that /\ self0[k] < that[k]
  /\ \A k \in (DOMAIN self0) \cap (DOMAIN that) : self0[k] <= that[k]

\* The methods that write to the container while a view of it exists.
ViewMutators ==
  {"__setitem__", "__delitem__", "popitem", "clear", "clean", "update",
   "__iadd__", "__isub__", "__ior__", "__iand__"}

C24_MostCommon ==
  op = "most_common" =>
    LET count == that[1]
        n == Len(list0)
        descending == Reverse(iteritems(self0, list0))
        m == IF count = None \/ count[1] > n THEN n ELSE count[1]
    IN  /\ err = "ok"
        /\ ret = SubSeq(descending, 1, m)
        /\ _dict = self0
        /\ _list = list0

\* C25: on the value view, count(v) returns the number of entries of value
\* v, and index(v) returns the position of the first entry of value v, or
\* raises ValueError when there is none; neither changes the container.
C25_ValueViewQueries ==
  op \in {"values.count", "values.index"} =>
    LET v == that[1]
        at == {i \in 1..Len(list0) : list0[i][1] = v}
    IN  /\ _dict = self0
        /\ _list = list0
        /\ op = "values.count" => (err = "ok" /\ ret = <<Cardinality(at)>>)
        /\ (op = "values.index" /\ at = {}) => err = "ValueError"
        /\ (op = "values.index" /\ at # {}) =>
             (err = "ok" /\ ret = <<(CHOOSE i \in at : \A j \in at : i <= j) - 1>>)

\* C26: an in-place merge of a container with itself gives the mapping of
\* the copy-producing merge of the container with itself, with I1-I3: every
\* value is doubled by A += A, zero after A -= A, unchanged by A |= A and
\* A &= A.
C26_SelfMerge ==
  LET items == iteritems(self0, list0)
  IN  /\ op = "__iadd__(self)" =>
           /\ err = "ok" /\ Valid(_dict, _list)
           /\ _dict = __add__(self0, list0, items, {}).d
           /\ DOMAIN _dict = DOMAIN self0
           /\ \A k \in DOMAIN self0 : _dict[k] = 2 * self0[k]
      /\ op = "__isub__(self)" =>
           /\ err = "ok" /\ Valid(_dict, _list)
           /\ _dict = __sub__(self0, list0, items, {}).d
           /\ DOMAIN _dict = DOMAIN self0
           /\ \A k \in DOMAIN self0 : _dict[k] = 0
      /\ op = "__ior__(self)" =>
           /\ err = "ok" /\ Valid(_dict, _list)
           /\ _dict = __or__(self0, list0, items, {}).d
           /\ _dict = self0
      /\ op = "__iand__(self)" =>
           /\ err = "ok" /\ Valid(_dict, _list)
           /\ _dict = __and__(self0, list0, items, {}).d
           /\ _dict = self0

InPlaceMerges == {"__iadd__", "__isub__", "__ior__", "__iand__"}

ResultMutators == {"result.__setitem__", "result.__delitem__", "result.clear", "result.clean"}

\* C27: a copy-producing merge leaves both indices of both operands as they
\* were, and so does a later mutation of the container it returned; an
\* in-place merge leaves both indices of the right operand as they were.
C27_MergeFrame ==
  /\ op \in CopyMerges \cup ResultMutators =>
       /\ _dict = self0.self._dict
       /\ _list = self0.self._list
       /\ that = self0.that
  /\ op \in InPlaceMerges => that = self0.that

\* The container A + B returned has had an item stored, where A and B are
\* not empty and the sum differs from A.
C27_Witness ==
  /\ op = "result.__setitem__"
  /\ err = "ok"
  /\ _dict # <<>>
  /\ that._dict # <<>>
  /\ result.objects._dict # _dict

\* The caller calls on containers whose indices agree.
IdleValid == Idle => (I1(_dict, _list) /\ I2(_dict, _list) /\ I3(_list))

====
